------------------------------ MODULE Spec2Model ------------------------------
(***************************************************************************)
(* A model of the workflow core of quail (src/quail/core.py): the two      *)
(* process-wide registries _TASKS and _CHECKS filled by the decorators     *)
(* qtask and qcheck, the dependency resolver Runner._topo with its nested  *)
(* recursive function visit, and the executor loop of Runner.run with the  *)
(* decorator wrappers it calls.                                            *)
(*                                                                         *)
(* Python values are records tagged by the field t, so that values of      *)
(* different Python types can be compared.  The recursion of visit is an   *)
(* explicit stack of frames; each frame holds the node n and the position  *)
(* k of the for-loop over its requires list.  A user callable is a         *)
(* function of the context only; what it returns or raises is chosen from  *)
(* a small set when it is called.                                          *)
(***************************************************************************)
EXTENDS Integers, Sequences, FiniteSets, TLC

VARIABLES
    TASKS,          \* _TASKS: id -> __qmeta__ of the registered task wrapper
    CHECKS,         \* _CHECKS: id -> __qmeta__ of the registered check wrapper
    pc,             \* "idle" | "topo" | "exec" | "done" | "failed", and "ctx"
                    \*   while a client calls the methods of one context
    targets,        \* the targets argument of run()
    ti,             \* position of "for t in targets" in _topo
    stack,          \* the active frames of visit, outermost first
    seen,           \* _topo's seen
    out,            \* _topo's out
    order,          \* run's order
    ctx,            \* run's ctx (a QContext), or NoCtx before it is created
    results,        \* run's results, an insertion-ordered dict
    i,              \* position of "for n in order" in run
    tasks_run,      \* run's tasks_run
    check_tally,    \* run's check_tally
    summary_rows,   \* run's summary_rows
    clock,          \* the next reading of time.time()
    err,            \* the exception that ended run(), or NoErr
    invoked,        \* history: the calls of user callables fn(ctx), in call order,
                    \*   each with the id of the node and what fn returned or raised;
                    \*   under CtxSpec, the calls of put/get/has with what they returned
    earlier         \* history: the ids that got a result in earlier calls of run()

vars == <<TASKS, CHECKS, pc, targets, ti, stack, seen, out, order, ctx, results,
          i, tasks_run, check_tally, summary_rows, clock, err, invoked, earlier>>

-----------------------------------------------------------------------------
(* Bounds of the model.                                                    *)

\* ids that occur in registrations, requires lists and target lists
Ids == {"a", "b", "c"}
\* ids that the registration steps of Spec register ("c" stays unknown there)
RunIds == {"a", "b"}
\* ids that the resolver inputs of TopoSpec register as checks, the others as tasks
CheckIds == {"b"}
\* longest target list passed to run() in a resolver input of TopoSpec
MaxTargets == 2
\* longest target list passed to run() after the registration steps of Spec
MaxRunTargets == 1
\* most requires entries, summed over the whole registry, in a resolver input
MaxEdges == 3
\* most requires entries, summed over the whole registry, that qtask/qcheck register
MaxRegEdges == 2
\* frames of visit the interpreter allows before it raises RecursionError
RecursionLimit == 4
\* most calls of put/get/has made on one context
MaxCalls == 4

-----------------------------------------------------------------------------
(* Python values.                                                          *)

PyNone == [t |-> "None"]
PyStr(s) == [t |-> "str", s |-> s]
PyDict(items) == [t |-> "dict", items |-> items]

EmptyDict == [k \in {} |-> PyNone]

\* d[k] = v
DictSet(d, k, v) == [j \in DOMAIN d \cup {k} |-> IF j = k THEN v ELSE d[j]]

\* {**a, **b}
DictMerge(a, b) == [j \in DOMAIN a \cup DOMAIN b |-> IF j \in DOMAIN b THEN b[j] ELSE a[j]]

\* d[k] = v on an insertion-ordered dict kept as a sequence of [key, val]
OrderedSet(d, k, v) ==
    IF \E p \in 1..Len(d) : d[p].key = k
    THEN [p \in 1..Len(d) |-> IF d[p].key = k THEN [key |-> k, val |-> v] ELSE d[p]]
    ELSE Append(d, [key |-> k, val |-> v])

Keys(d) == [p \in 1..Len(d) |-> d[p].key]

SeqsUpTo(S, m) == UNION {[1..l -> S] : l \in 0..m}

-----------------------------------------------------------------------------
(* Exceptions.  A message is the sequence of the pieces of its f-string.   *)

NoErr == [type |-> "none", msg |-> <<>>]

\* a message that leaves out the requiring node
UnknownDependency_NoNode(d, n) ==
    [type |-> "KeyError", msg |-> <<"Unknown dependency '", d, "'">>]

\* KeyError(f"Unknown dependency '{d}' required by '{n}'")
UnknownDependency(d, n) ==
    [type |-> "KeyError", msg |-> <<"Unknown dependency '", d, "' required by '", n, "'">>]

\* an unknown target reported the way an unknown dependency is
UnknownTarget_AsDependency(t) ==
    [type |-> "KeyError", msg |-> <<"Unknown dependency '", t, "' required by '", "", "'">>]

\* KeyError(f"Unknown node/target: {t}")
UnknownTarget(t) ==
    [type |-> "KeyError", msg |-> <<"Unknown node/target: ", t>>]

RecursionError ==
    [type |-> "RecursionError", msg |-> <<"maximum recursion depth exceeded">>]

-----------------------------------------------------------------------------
(* Registries and decorators.                                              *)

TaskMeta(rid, requires) == [id |-> rid, requires |-> requires, type |-> "task"]
CheckMeta(rid, requires, severity) ==
    [id |-> rid, requires |-> requires, type |-> "check", severity |-> severity]

\* graph = {**_TASKS, **_CHECKS}
graph == DictMerge(TASKS, CHECKS)

\* a resolver whose loop stops after the first entry
Requires_FirstOnly(n) == IF graph[n].requires = <<>> THEN <<>> ELSE <<graph[n].requires[1]>>

\* a resolver whose loop runs over the entries last to first
Requires_Reversed(n) ==
    [k \in 1..Len(graph[n].requires) |-> graph[n].requires[Len(graph[n].requires) + 1 - k]]

\* graph[n].__qmeta__["requires"]
Requires(n) == graph[n].requires


\* the number of requires entries of a registry, for the bounds
Edges(req) ==
    LET RECURSIVE Sum(_)
        Sum(S) == IF S = {} THEN 0
                  ELSE LET n == CHOOSE x \in S : TRUE IN Len(req[n]) + Sum(S \ {n})
    IN Sum(DOMAIN req)

ReqMaps(S, m) == {req \in [S -> SeqsUpTo(Ids, m)] : Edges(req) <= m}

\* requires = requires or []; _TASKS[rid] = wrapper
qtask(rid, requires) ==
    /\ pc = "idle"
    /\ TASKS' = DictSet(TASKS, rid, TaskMeta(rid, requires))
    /\ UNCHANGED <<earlier, CHECKS, pc, targets, ti, stack, seen, out, order, ctx, results,
                   i, tasks_run, check_tally, summary_rows, clock, err, invoked>>

\* requires = requires or []; _CHECKS[rid] = wrapper
qcheck(rid, requires, severity) ==
    /\ pc = "idle"
    /\ CHECKS' = DictSet(CHECKS, rid, CheckMeta(rid, requires, severity))
    /\ UNCHANGED <<earlier, TASKS, pc, targets, ti, stack, seen, out, order, ctx, results,
                   i, tasks_run, check_tally, summary_rows, clock, err, invoked>>

-----------------------------------------------------------------------------
(* The execution context.                                                  *)

NoCtx == [env |-> "unbound", params |-> "unbound", artifacts |-> EmptyDict]

\* a constructor whose artifact store is shared by all contexts and still
\* holds what an earlier run put into it
QContext_Stale(env, params) ==
    [env |-> env, params |-> params, artifacts |-> ("a" :> PyStr("hi"))]

\* QContext.__init__
QContext(env, params) == [env |-> env, params |-> params, artifacts |-> EmptyDict]

\* a put that binds the store to a new dict holding only the new item
put_Rebinds(c, k, v) == [c EXCEPT !.artifacts = k :> v]

\* QContext.put
put(c, k, v) == [c EXCEPT !.artifacts = DictSet(@, k, v)]

\* a get that takes a stored None for a missing key
get_NoneIsMissing(c, k, default) ==
    IF k \in DOMAIN c.artifacts /\ c.artifacts[k] # PyNone THEN c.artifacts[k] ELSE default

\* QContext.get
get(c, k, default) == IF k \in DOMAIN c.artifacts THEN c.artifacts[k] ELSE default

\* QContext.has
has(c, k) == k \in DOMAIN c.artifacts

-----------------------------------------------------------------------------
(* Runner._topo.                                                           *)

\* a resolver that never consults seen
InSeen_Never(n) == FALSE

\* "if n in seen" at the head of visit
InSeen(n) == n \in seen

\* a resolver that emits a node in front of what it has emitted
Emit_Front(n) == <<n>> \o out

\* "out.append(n)" at the end of visit
Emit(n) == Append(out, n)

\* a call of visit that returns at once when n is in seen or is the node of an
\* active frame
CallVisit_OnStack(fr, n) ==
    IF Len(fr) >= RecursionLimit
    THEN /\ pc' = "failed"
         /\ err' = RecursionError
         /\ stack' = fr
    ELSE /\ pc' = pc
         /\ err' = err
         /\ stack' = IF InSeen(n) \/ \E q \in 1..Len(fr) : fr[q].n = n
                      THEN fr ELSE Append(fr, [n |-> n, k |-> 1])

\* the call visit(n) made with the frames fr active: one more frame than the
\* interpreter allows raises RecursionError; a node already seen returns at
\* once; otherwise the body of visit starts at the head of its for-loop
CallVisit(fr, n) ==
    IF Len(fr) >= RecursionLimit
    THEN /\ pc' = "failed"
         /\ err' = RecursionError
         /\ stack' = fr
    ELSE /\ pc' = pc
         /\ err' = err
         /\ stack' = IF InSeen(n) THEN fr ELSE Append(fr, [n |-> n, k |-> 1])

\* run(targets) is entered: graph is merged and _topo starts with seen, out = set(), []
run(t) ==
    /\ pc \in {"idle", "done", "failed"}
    /\ pc' = "topo"
    /\ targets' = t
    /\ ti' = 1
    /\ stack' = <<>>
    /\ seen' = {}
    /\ out' = <<>>
    /\ order' = <<>>
    /\ ctx' = NoCtx
    /\ results' = <<>>
    /\ i' = 1
    /\ tasks_run' = 0
    /\ check_tally' = [pass |-> 0, fail |-> 0, skip |-> 0, error |-> 0]
    /\ summary_rows' = <<>>
    /\ clock' = 1
    /\ err' = NoErr
    /\ invoked' = <<>>
    /\ earlier' = earlier \cup {results[q].key : q \in 1..Len(results)}
    /\ UNCHANGED <<TASKS, CHECKS>>

\* one turn of "for t in targets" in _topo
TopoTarget ==
    /\ pc = "topo"
    /\ stack = <<>>
    /\ ti <= Len(targets)
    /\ LET t == targets[ti] IN
       IF t \notin DOMAIN graph
       THEN /\ pc' = "failed"
            /\ err' = UnknownTarget(t)
            /\ UNCHANGED <<ti, stack>>
       ELSE /\ ti' = ti + 1
            /\ CallVisit(stack, t)
    /\ UNCHANGED <<earlier, TASKS, CHECKS, targets, seen, out, order, ctx, results, i,
                   tasks_run, check_tally, summary_rows, clock, invoked>>

\* one turn of "for d in graph[n].__qmeta__['requires']" in the innermost frame
VisitDep ==
    /\ pc = "topo"
    /\ stack # <<>>
    /\ LET top == stack[Len(stack)]
           n == top.n
       IN /\ top.k <= Len(Requires(n))
          /\ LET d == Requires(n)[top.k] IN
             IF d \notin DOMAIN graph
             THEN /\ pc' = "failed"
                  /\ err' = UnknownDependency(d, n)
                  /\ UNCHANGED stack
             ELSE CallVisit([stack EXCEPT ![Len(stack)].k = top.k + 1], d)
    /\ UNCHANGED <<earlier, TASKS, CHECKS, targets, ti, seen, out, order, ctx, results, i,
                   tasks_run, check_tally, summary_rows, clock, invoked>>

\* a visit that starts its loop over again when the loop has ended
VisitDone_Restarts ==
    /\ pc = "topo"
    /\ stack # <<>>
    /\ LET top == stack[Len(stack)]
           n == top.n
       IN /\ top.k > Len(Requires(n))
          /\ stack' = [stack EXCEPT ![Len(stack)].k = 1]
    /\ UNCHANGED <<earlier, TASKS, CHECKS, pc, targets, ti, seen, out, order, ctx, results, i,
                   tasks_run, check_tally, summary_rows, clock, err, invoked>>

\* a resolver that runs each node as soon as its dependencies are visited
VisitDone_Runs ==
    /\ pc = "topo"
    /\ stack # <<>>
    /\ LET top == stack[Len(stack)]
           n == top.n
       IN /\ top.k > Len(Requires(n))
          /\ seen' = seen \cup {n}
          /\ out' = Emit(n)
          /\ stack' = SubSeq(stack, 1, Len(stack) - 1)
          /\ invoked' = Append(invoked, [id |-> n, raised |-> FALSE, value |-> PyNone])
          /\ ctx' = put(ctx, n, PyNone)
    /\ UNCHANGED <<earlier, TASKS, CHECKS, pc, targets, ti, order, results, i,
                   tasks_run, check_tally, summary_rows, clock, err>>

\* the for-loop of the innermost frame is over: seen.add(n); out.append(n); return
VisitDone ==
    /\ pc = "topo"
    /\ stack # <<>>
    /\ LET top == stack[Len(stack)]
           n == top.n
       IN /\ top.k > Len(Requires(n))
          /\ seen' = seen \cup {n}
          /\ out' = Emit(n)
          /\ stack' = SubSeq(stack, 1, Len(stack) - 1)
    /\ UNCHANGED <<earlier, TASKS, CHECKS, pc, targets, ti, order, ctx, results, i,
                   tasks_run, check_tally, summary_rows, clock, err, invoked>>

\* _topo returns out; run binds order and creates ctx, results and the counters
TopoReturn ==
    /\ pc = "topo"
    /\ stack = <<>>
    /\ ti > Len(targets)
    /\ order' = out
    /\ ctx' = QContext("env", "params")
    /\ results' = <<>>
    /\ summary_rows' = <<>>
    /\ check_tally' = [pass |-> 0, fail |-> 0, skip |-> 0, error |-> 0]
    /\ tasks_run' = 0
    /\ i' = 1
    /\ pc' = "exec"
    /\ UNCHANGED <<earlier, TASKS, CHECKS, targets, ti, stack, seen, out, clock, err, invoked>>

NextTopo ==
    \/ \E t \in SeqsUpTo(Ids, MaxTargets) : run(t)
    \/ TopoTarget
    \/ VisitDep
    \/ VisitDone
    \/ TopoReturn

\* The resolver alone, on every registry within the bounds: any subset of Ids
\* is registered, with requires lists of at most MaxEdges entries together.
InitTopo ==
    /\ \E S \in SUBSET Ids : \E req \in ReqMaps(S, MaxEdges) :
          /\ TASKS = [n \in S \ CheckIds |-> TaskMeta(n, req[n])]
          /\ CHECKS = [n \in S \cap CheckIds |-> CheckMeta(n, req[n], "error")]
    /\ pc = "idle"
    /\ targets = <<>>
    /\ ti = 1
    /\ stack = <<>>
    /\ seen = {}
    /\ out = <<>>
    /\ order = <<>>
    /\ ctx = NoCtx
    /\ results = <<>>
    /\ i = 1
    /\ tasks_run = 0
    /\ check_tally = [pass |-> 0, fail |-> 0, skip |-> 0, error |-> 0]
    /\ summary_rows = <<>>
    /\ clock = 1
    /\ err = NoErr
    /\ invoked = <<>>
    /\ earlier = {}

TopoSpec == InitTopo /\ [][NextTopo]_vars

-----------------------------------------------------------------------------
(* The check result type.                                                  *)

\* Python's "x or y" on a timestamp: None and 0 are both falsy and are written 0
OrTime(x, y) == IF x # 0 THEN x ELSE y

\* Python's "x or y" on a string: None and "" are both falsy and are written ""
OrStr(x, y) == IF x # "" THEN x ELSE y

\* CheckResult.__init__ called when the clock reads now; each default that is
\* taken reads the clock once
CheckResult(id, status, severity, error, started_at, finished_at, now) ==
    [t |-> "CheckResult",
     id |-> id,
     status |-> status,
     severity |-> severity,
     error |-> error,
     started_at |-> OrTime(started_at, now),
     finished_at |-> OrTime(finished_at, IF started_at # 0 THEN now ELSE now + 1)]

\* the number of clock readings of that call
InitReads(started_at, finished_at) ==
    (IF started_at # 0 THEN 0 ELSE 1) + (IF finished_at # 0 THEN 0 ELSE 1)

-----------------------------------------------------------------------------
(* User callables.  A task callable returns a value or raises; a check      *)
(* callable builds and returns a CheckResult or raises.                     *)

Severities == {"error", "warning"}

\* what a task callable returns: a string, None, a mapping with one key, or a
\* mapping with two keys
TaskValues ==
    {PyStr("hi"), PyNone, PyDict(("a" :> PyStr("x")) @@ ("b" :> PyStr("y")))}
       \cup {PyDict(k :> PyStr("w")) : k \in Ids}

TaskOutcomes ==
    {[raises |-> FALSE, value |-> v, msg |-> ""] : v \in TaskValues}
      \cup {[raises |-> TRUE, value |-> PyNone, msg |-> "boom"]}

\* the arguments a check callable registered as rid gives to CheckResult(...):
\* its own id with the default severity and a status that is or is not one of
\* the four known ones, another id and severity, or empty id and severity.
\* stamps tells which timestamp the callable passes: none, or a reading of the
\* clock that it took on entry, as started_at or as finished_at
CheckOutcomes(rid) ==
    {[raises |-> FALSE, id |-> rid, status |-> st, severity |-> "error",
      stamps |-> "none", msg |-> ""] : st \in {"pass", "fail", "skip", "warning"}}
      \cup {[raises |-> FALSE, id |-> rid, status |-> "pass", severity |-> "error",
             stamps |-> g, msg |-> ""] : g \in {"started_at", "finished_at"}}
      \cup {[raises |-> FALSE, id |-> "other", status |-> "pass", severity |-> "info",
             stamps |-> "none", msg |-> ""],
            [raises |-> FALSE, id |-> "", status |-> "pass", severity |-> "",
             stamps |-> "none", msg |-> ""],
            [raises |-> TRUE, id |-> rid, status |-> "", severity |-> "",
             stamps |-> "none", msg |-> "division by zero"]}

\* the clock readings of a callable that was entered when the clock read called:
\* its own reading, if it passes a timestamp, then the constructor's
OwnReads(o) == IF o.stamps = "none" THEN 0 ELSE 1
GivenStart(o, called) == IF o.stamps = "started_at" THEN called ELSE 0
GivenFinish(o, called) == IF o.stamps = "finished_at" THEN called ELSE 0

\* the object that the callable builds and returns
Built(o, called) ==
    CheckResult(o.id, o.status, o.severity, PyNone,
                GivenStart(o, called), GivenFinish(o, called), called + OwnReads(o))

\* the clock when the callable returns
Back(o, called) ==
    called + OwnReads(o) + InitReads(GivenStart(o, called), GivenFinish(o, called))

-----------------------------------------------------------------------------
(* Runner.run: the executor loop.                                          *)

\* an entry of the history invoked
Call(n, raised, value) == [id |-> n, raised |-> raised, value |-> value]

\* a task wrapper that never looks for a cached artifact
Memoized_Never(c, rid) == FALSE

\* a task wrapper whose test is inverted
Memoized_Inverted(c, rid) == ~has(c, rid)

\* "if ctx.has(rid): return ctx.get(rid)" of the task wrapper
Memoized(c, rid) == has(c, rid)

\* a task wrapper that stores nothing when the task returned None
TaskStore_SkipsNone(c, rid, result) ==
    IF result = PyNone THEN c
    ELSE LET c1 == put(c, rid, result) IN
         IF result.t = "dict"
         THEN [c1 EXCEPT !.artifacts = DictMerge(@, result.items)]
         ELSE c1

\* a task wrapper that stores the result and merges nothing
TaskStore_NoMerge(c, rid, result) == put(c, rid, result)

\* ctx.put(rid, result), then every item of a dict result is put under its key
TaskStore(c, rid, result) ==
    LET c1 == put(c, rid, result) IN
    IF result.t = "dict"
    THEN [c1 EXCEPT !.artifacts = DictMerge(@, result.items)]
    ELSE c1

\* a result map that puts each new entry first
Record_Front(n, kind, val) == <<[key |-> n, val |-> [kind |-> kind, value |-> val]]>> \o results

\* results[n] = (kind, val)
Record(n, kind, val) == OrderedSet(results, n, [kind |-> kind, value |-> val])

\* a task iteration ends normally with val returned by the wrapper
TaskDone(n, val, c, inv) ==
    /\ ctx' = c
    /\ invoked' = inv
    /\ results' = Record(n, "task", val)
    /\ tasks_run' = tasks_run + 1
    /\ summary_rows' = Append(summary_rows, <<n, "task", "done", "-", 1000>>)
    /\ clock' = clock + 2
    /\ i' = i + 1
    /\ UNCHANGED <<pc, err, check_tally>>

\* a loop that does not call a task when the result of one of the checks it
\* requires has another status than pass, and records None for it
ExecTask_Gated ==
    /\ pc = "exec"
    /\ i <= Len(order)
    /\ graph[order[i]].type = "task"
    /\ LET n == order[i]
           gated == \E q \in 1..Len(results) :
                       /\ \E k \in 1..Len(graph[n].requires) : graph[n].requires[k] = results[q].key
                       /\ results[q].val.kind = "check"
                       /\ results[q].val.value.status # "pass"
       IN
       IF Memoized(ctx, n)
       THEN TaskDone(n, get(ctx, n, PyNone), ctx, invoked)
       ELSE IF gated
       THEN TaskDone(n, PyNone, ctx, invoked)
       ELSE \E o \in TaskOutcomes :
              IF o.raises
              THEN /\ pc' = "failed"
                   /\ err' = [type |-> "Exception", msg |-> <<o.msg>>]
                   /\ invoked' = Append(invoked, Call(n, TRUE, PyNone))
                   /\ clock' = clock + 1
                   /\ UNCHANGED <<ctx, results, tasks_run, summary_rows, i, check_tally>>
              ELSE TaskDone(n, o.value, TaskStore(ctx, n, o.value),
                            Append(invoked, Call(n, FALSE, o.value)))
    /\ UNCHANGED <<earlier, TASKS, CHECKS, targets, ti, stack, seen, out, order>>

\* a loop that catches what a task raises and records None for the task
ExecTask_Swallows ==
    /\ pc = "exec"
    /\ i <= Len(order)
    /\ graph[order[i]].type = "task"
    /\ LET n == order[i] IN
       IF Memoized(ctx, n)
       THEN TaskDone(n, get(ctx, n, PyNone), ctx, invoked)
       ELSE \E o \in TaskOutcomes :
              IF o.raises
              THEN TaskDone(n, PyNone, ctx, Append(invoked, Call(n, TRUE, PyNone)))
              ELSE TaskDone(n, o.value, TaskStore(ctx, n, o.value),
                            Append(invoked, Call(n, FALSE, o.value)))
    /\ UNCHANGED <<earlier, TASKS, CHECKS, targets, ti, stack, seen, out, order>>

\* one turn of "for n in order" on a task
ExecTask ==
    /\ pc = "exec"
    /\ i <= Len(order)
    /\ graph[order[i]].type = "task"
    /\ LET n == order[i] IN
       IF Memoized(ctx, n)
       THEN TaskDone(n, get(ctx, n, PyNone), ctx, invoked)
       ELSE \E o \in TaskOutcomes :
              IF o.raises
              THEN /\ pc' = "failed"
                   /\ err' = [type |-> "Exception", msg |-> <<o.msg>>]
                   /\ invoked' = Append(invoked, Call(n, TRUE, PyNone))
                   /\ clock' = clock + 1
                   /\ UNCHANGED <<ctx, results, tasks_run, summary_rows, i, check_tally>>
              ELSE TaskDone(n, o.value, TaskStore(ctx, n, o.value),
                            Append(invoked, Call(n, FALSE, o.value)))
    /\ UNCHANGED <<earlier, TASKS, CHECKS, targets, ti, stack, seen, out, order>>

\* the check wrapper around a callable that returned res when the clock read now
CheckReturned(res, rid, severity, start, now) ==
    [res EXCEPT !.started_at = OrTime(@, start),
                !.finished_at = OrTime(@, now),
                !.id = OrStr(@, rid),
                !.severity = OrStr(@, severity)]

\* an except branch that leaves the severity of the result to its default
CheckRaised_DefaultSeverity(msg, rid, severity, start, now) ==
    CheckResult(rid, "error", "error", PyStr(msg), start, now, now + 1)

\* the check wrapper around a callable that raised e when the clock read now
CheckRaised(msg, rid, severity, start, now) ==
    CheckResult(rid, "error", severity, PyStr(msg), start, now, now + 1)

\* a tally that counts only the statuses it knows
Tally_DropsUnknown(tally, status) ==
    IF status \in {"pass", "fail", "skip", "error"}
    THEN [tally EXCEPT ![status] = @ + 1]
    ELSE tally

\* check_tally[res.status if res.status in check_tally else "error"] += 1
Tally(tally, status) ==
    LET key == IF status \in {"pass", "fail", "skip", "error"} THEN status ELSE "error"
    IN [tally EXCEPT ![key] = @ + 1]

\* a check wrapper without its except branch: what the callable raises leaves run
ExecCheck_Propagates ==
    /\ pc = "exec"
    /\ i <= Len(order)
    /\ graph[order[i]].type # "task"
    /\ LET n == order[i]
           severity == graph[n].severity
           start_wall == clock
           start == clock + 1
           called == clock + 2
       IN \E o \in CheckOutcomes(n) :
            IF o.raises
            THEN /\ pc' = "failed"
                 /\ err' = [type |-> "Exception", msg |-> <<o.msg>>]
                 /\ invoked' = Append(invoked, Call(n, TRUE, PyNone))
                 /\ clock' = called
                 /\ UNCHANGED <<ctx, results, check_tally, summary_rows, i>>
            ELSE LET built == Built(o, called)
                     back == Back(o, called)
                     res == CheckReturned(built, n, severity, start, back)
                     final == [res EXCEPT !.started_at = OrTime(@, start_wall),
                                          !.finished_at = OrTime(@, back)]
                 IN /\ ctx' = put(ctx, n, final)
                    /\ results' = Record(n, "check", final)
                    /\ invoked' = Append(invoked, Call(n, FALSE, built))
                    /\ check_tally' = Tally(check_tally, final.status)
                    /\ summary_rows' = Append(summary_rows,
                          <<n, "check", final.status, final.severity,
                            (final.finished_at - final.started_at) * 1000>>)
                    /\ clock' = back
                    /\ i' = i + 1
                    /\ UNCHANGED <<pc, err>>
    /\ UNCHANGED <<earlier, TASKS, CHECKS, targets, ti, stack, seen, out, order, tasks_run>>

\* one turn of "for n in order" on a check
ExecCheck ==
    /\ pc = "exec"
    /\ i <= Len(order)
    /\ graph[order[i]].type # "task"
    /\ LET n == order[i]
           severity == graph[n].severity
           \* start_wall = time.time() in run, start = time.time() in the wrapper,
           \* and the reading of the clock when fn(ctx) is entered
           start_wall == clock
           start == clock + 1
           called == clock + 2
       IN \E o \in CheckOutcomes(n) :
            LET \* what fn builds and returns, and the clock when it returns
                built == Built(o, called)
                back == Back(o, called)
                \* the wrapper reads the clock for "finished_at=time.time()" of
                \* the except branch, or when the returned finished_at is falsy
                reads == IF o.raises THEN 1 ELSE IF built.finished_at = 0 THEN 1 ELSE 0
                res == IF o.raises
                       THEN CheckRaised(o.msg, n, severity, start, called)
                       ELSE CheckReturned(built, n, severity, start, back)
                after == (IF o.raises THEN called ELSE back) + reads
                \* run stamps the same object that the wrapper put into ctx
                final == [res EXCEPT !.started_at = OrTime(@, start_wall),
                                     !.finished_at = OrTime(@, after)]
            IN /\ ctx' = put(ctx, n, final)
               /\ results' = Record(n, "check", final)
               /\ invoked' = Append(invoked, Call(n, o.raises, IF o.raises THEN PyNone ELSE built))
               /\ check_tally' = Tally(check_tally, final.status)
               /\ summary_rows' = Append(summary_rows,
                     <<n, "check", final.status, final.severity,
                       (final.finished_at - final.started_at) * 1000>>)
               /\ clock' = after + (IF res.finished_at = 0 THEN 1 ELSE 0)
               /\ i' = i + 1
    /\ UNCHANGED <<earlier, TASKS, CHECKS, pc, targets, ti, stack, seen, out, order, tasks_run, err>>

\* "for n in order" is over: the summary is printed and results is returned
RunReturn ==
    /\ pc = "exec"
    /\ i > Len(order)
    /\ pc' = "done"
    /\ UNCHANGED <<earlier, TASKS, CHECKS, targets, ti, stack, seen, out, order, ctx, results,
                   i, tasks_run, check_tally, summary_rows, clock, err, invoked>>

-----------------------------------------------------------------------------
(* The whole program: registration at start-up, then calls of run().       *)

RegEdges(T, C) ==
    Edges([n \in DOMAIN T |-> T[n].requires]) + Edges([n \in DOMAIN C |-> C[n].requires])

Register ==
    /\ pc = "idle"
    /\ \E rid \in RunIds : \E req \in SeqsUpTo(Ids, MaxRegEdges) :
         \/ /\ RegEdges(DictSet(TASKS, rid, TaskMeta(rid, req)), CHECKS) <= MaxRegEdges
            /\ qtask(rid, req)
         \/ /\ RegEdges(TASKS, DictSet(CHECKS, rid, CheckMeta(rid, req, "error"))) <= MaxRegEdges
            /\ \E sev \in Severities : qcheck(rid, req, sev)

Init ==
    /\ TASKS = EmptyDict
    /\ CHECKS = EmptyDict
    /\ pc = "idle"
    /\ targets = <<>>
    /\ ti = 1
    /\ stack = <<>>
    /\ seen = {}
    /\ out = <<>>
    /\ order = <<>>
    /\ ctx = NoCtx
    /\ results = <<>>
    /\ i = 1
    /\ tasks_run = 0
    /\ check_tally = [pass |-> 0, fail |-> 0, skip |-> 0, error |-> 0]
    /\ summary_rows = <<>>
    /\ clock = 1
    /\ err = NoErr
    /\ invoked = <<>>
    /\ earlier = {}

\* the registrations and one call of run().  run() resets every variable but
\* the registries and the history of earlier calls, so a later call passes
\* through the states of a first one; the calls after the first are in NextRuns
Next ==
    \/ Register
    \/ \E t \in SeqsUpTo(Ids, MaxRunTargets) : pc = "idle" /\ run(t)
    \/ TopoTarget
    \/ VisitDep
    \/ VisitDone
    \/ TopoReturn
    \/ ExecTask
    \/ ExecCheck
    \/ RunReturn

Spec == Init /\ [][Next]_vars

\* any number of calls of run() on the same Runner and registry
NextRuns ==
    \/ Register
    \/ \E t \in SeqsUpTo(Ids, MaxRunTargets) : run(t)
    \/ TopoTarget
    \/ VisitDep
    \/ VisitDone
    \/ TopoReturn
    \/ ExecTask
    \/ ExecCheck
    \/ RunReturn

RunsSpec == Init /\ [][NextRuns]_vars

-----------------------------------------------------------------------------
(* Runs on a registry of three nodes in a line: task a, check b that        *)
(* requires a, and task c that requires b, or a and b.                      *)

InitPipe ==
    /\ TASKS \in {("a" :> TaskMeta("a", <<>>)) @@ ("c" :> TaskMeta("c", req)) :
                      req \in {<<"b">>, <<"a", "b">>}}
    /\ CHECKS \in {"b" :> CheckMeta("b", <<"a">>, sev) : sev \in Severities}
    /\ pc = "idle"
    /\ targets = <<>>
    /\ ti = 1
    /\ stack = <<>>
    /\ seen = {}
    /\ out = <<>>
    /\ order = <<>>
    /\ ctx = NoCtx
    /\ results = <<>>
    /\ i = 1
    /\ tasks_run = 0
    /\ check_tally = [pass |-> 0, fail |-> 0, skip |-> 0, error |-> 0]
    /\ summary_rows = <<>>
    /\ clock = 1
    /\ err = NoErr
    /\ invoked = <<>>
    /\ earlier = {}

NextPipe ==
    \/ \E t \in SeqsUpTo(Ids, MaxRunTargets) : run(t)
    \/ TopoTarget
    \/ VisitDep
    \/ VisitDone
    \/ TopoReturn
    \/ ExecTask
    \/ ExecCheck
    \/ RunReturn

PipeSpec == InitPipe /\ [][NextPipe]_vars

-----------------------------------------------------------------------------
(* The resolver on registries without cycles: the tasks of Chain, each      *)
(* requiring nothing or the next one; the last one may be left              *)
(* unregistered.                                                            *)

Chain == <<"a", "b", "c", "d", "e">>

ChainIds == {Chain[k] : k \in 1..Len(Chain)}

\* the requires list of the k-th task when link[k] says whether it requires the next
ChainRequires(link, k) == IF k < Len(Chain) /\ link[k] THEN <<Chain[k + 1]>> ELSE <<>>

InitChain ==
    /\ \E link \in [1..(Len(Chain) - 1) -> BOOLEAN] : \E last \in BOOLEAN :
          TASKS = [n \in (IF last THEN ChainIds ELSE ChainIds \ {Chain[Len(Chain)]}) |->
                     TaskMeta(n, ChainRequires(link, CHOOSE k \in 1..Len(Chain) : Chain[k] = n))]
    /\ CHECKS = EmptyDict
    /\ pc = "idle"
    /\ targets = <<>>
    /\ ti = 1
    /\ stack = <<>>
    /\ seen = {}
    /\ out = <<>>
    /\ order = <<>>
    /\ ctx = NoCtx
    /\ results = <<>>
    /\ i = 1
    /\ tasks_run = 0
    /\ check_tally = [pass |-> 0, fail |-> 0, skip |-> 0, error |-> 0]
    /\ summary_rows = <<>>
    /\ clock = 1
    /\ err = NoErr
    /\ invoked = <<>>
    /\ earlier = {}

NextChain ==
    \/ \E t \in SeqsUpTo(ChainIds, MaxRunTargets) : run(t)
    \/ TopoTarget
    \/ VisitDep
    \/ VisitDone
    \/ TopoReturn

\* _topo is sequential code: a step that can be taken is taken
ChainSpec ==
    /\ InitChain
    /\ [][NextChain]_vars
    /\ WF_vars(TopoTarget) /\ WF_vars(VisitDep) /\ WF_vars(VisitDone) /\ WF_vars(TopoReturn)

-----------------------------------------------------------------------------
(* QContext on its own: a client makes calls of put, get and has on one     *)
(* context, in any order.                                                  *)

PyBool(b) == [t |-> "bool", b |-> b]

\* the values a client stores, and the defaults it passes to get
StoredValues == {PyNone, PyStr("hi"), PyStr("w")}
Defaults == {PyNone, PyStr("d")}

\* an entry of the history of calls on the context
CtxCall(op, k, v, ret) == [op |-> op, k |-> k, v |-> v, ret |-> ret]

\* ctx.put(k, v)
CtxPut ==
    /\ pc = "ctx"
    /\ Len(invoked) < MaxCalls
    /\ \E k \in RunIds : \E v \in StoredValues :
          /\ ctx' = put(ctx, k, v)
          /\ invoked' = Append(invoked, CtxCall("put", k, v, PyNone))
    /\ UNCHANGED <<earlier, TASKS, CHECKS, pc, targets, ti, stack, seen, out, order, results,
                   i, tasks_run, check_tally, summary_rows, clock, err>>

\* ctx.get(k, d)
CtxGet ==
    /\ pc = "ctx"
    /\ Len(invoked) < MaxCalls
    /\ \E k \in RunIds : \E d \in Defaults :
          invoked' = Append(invoked, CtxCall("get", k, d, get(ctx, k, d)))
    /\ UNCHANGED <<earlier, TASKS, CHECKS, pc, targets, ti, stack, seen, out, order, ctx, results,
                   i, tasks_run, check_tally, summary_rows, clock, err>>

\* ctx.has(k)
CtxHas ==
    /\ pc = "ctx"
    /\ Len(invoked) < MaxCalls
    /\ \E k \in RunIds :
          invoked' = Append(invoked, CtxCall("has", k, PyNone, PyBool(has(ctx, k))))
    /\ UNCHANGED <<earlier, TASKS, CHECKS, pc, targets, ti, stack, seen, out, order, ctx, results,
                   i, tasks_run, check_tally, summary_rows, clock, err>>

\* a context just constructed, and nothing else going on
InitCtx ==
    /\ TASKS = EmptyDict
    /\ CHECKS = EmptyDict
    /\ pc = "ctx"
    /\ targets = <<>>
    /\ ti = 1
    /\ stack = <<>>
    /\ seen = {}
    /\ out = <<>>
    /\ order = <<>>
    /\ ctx = QContext("env", "params")
    /\ results = <<>>
    /\ i = 1
    /\ tasks_run = 0
    /\ check_tally = [pass |-> 0, fail |-> 0, skip |-> 0, error |-> 0]
    /\ summary_rows = <<>>
    /\ clock = 1
    /\ err = NoErr
    /\ invoked = <<>>
    /\ earlier = {}

NextCtx ==
    \/ CtxPut
    \/ CtxGet
    \/ CtxHas

CtxSpec == InitCtx /\ [][NextCtx]_vars

-----------------------------------------------------------------------------
(* Vocabulary of the properties.                                           *)

Range(f) == {f[p] : p \in DOMAIN f}

\* the declared requires list of a registered node
Deps(n) == graph[n].requires

\* the ids reachable from S over requires entries, S included
RECURSIVE Closure(_)
Closure(S) ==
    LET more == S \cup UNION {Range(Deps(n)) : n \in S \cap DOMAIN graph}
    IN IF more = S THEN S ELSE Closure(more)

\* the transitive dependencies of n
TransDeps(n) == Closure(Range(Deps(n)))

\* the positions of id x in the sequence q
Places(q, x) == {p \in 1..Len(q) : q[p] = x}

\* the first position of x in q, 0 when x is not in q
Pos(q, x) == IF Places(q, x) = {} THEN 0 ELSE CHOOSE p \in Places(q, x) : \A r \in Places(q, x) : p <= r

\* resolution has succeeded: _topo returned and run bound order
Resolved == pc \in {"exec", "done"} \/ (pc = "failed" /\ err.type = "Exception")

\* the calls of the user callable of node n in this run
Calls(n) == {p \in 1..Len(invoked) : invoked[p].id = n}

-----------------------------------------------------------------------------
(* C1: topological invariant.  Whenever resolution succeeds, every id in    *)
(* the requires list of a node of the order stands at a strictly smaller    *)
(* position than the node, and so does every transitive dependency.         *)
C1_Topological ==
    Resolved =>
        \A p \in 1..Len(order) :
            /\ \A k \in 1..Len(Deps(order[p])) :
                  \E r \in 1..(p - 1) : order[r] = Deps(order[p])[k]
            /\ \A d \in TransDeps(order[p]) :
                  \E r \in 1..(p - 1) : order[r] = d

\* a chain was resolved: the last node has a dependency it does not list itself
C1_Witness ==
    /\ pc = "exec"
    /\ Len(order) = 3
    /\ TransDeps(order[3]) # Range(Deps(order[3]))

(* C2: de-duplication invariant.  The resolved order never holds the same   *)
(* id twice, whether a dependency is shared by targets, reachable over      *)
(* several paths, itself a target, or the target list repeats an id.        *)
C2_NoDuplicates ==
    Resolved => \A p, q \in 1..Len(order) : order[p] = order[q] => p = q

\* a diamond was resolved from a target list that repeats an id: some id is
\* required by two different nodes of the order
C2_Witness ==
    /\ pc = "exec"
    /\ Len(targets) = 2
    /\ targets[1] = targets[2]
    /\ \E d \in Range(order) : \E m, n \in Range(order) :
          m # n /\ d \in Range(Deps(m)) /\ d \in Range(Deps(n))

(* C3: closure.  Whenever resolution succeeds, the ids of the order are     *)
(* exactly the requested ids and their transitive dependencies.             *)
C3_Closure ==
    Resolved =>
        /\ Range(order) = Range(targets) \cup UNION {TransDeps(t) : t \in Range(targets)}
        /\ Range(targets) \subseteq Range(order)
        /\ \A t \in Range(targets) : TransDeps(t) \subseteq Range(order)

\* the order holds two ids that were not requested
C3_Witness ==
    /\ pc = "exec"
    /\ Cardinality(Range(order) \ Range(targets)) = 2

\* the post-order of a depth-first traversal: the ids in list are visited in
\* list order, each after its own requires list, and an id already emitted
\* is skipped
RECURSIVE PostOrderFrom(_, _)
PostOrderFrom(list, emitted) ==
    IF list = <<>> THEN emitted
    ELSE LET n == Head(list) IN
         IF n \in Range(emitted)
         THEN PostOrderFrom(Tail(list), emitted)
         ELSE PostOrderFrom(Tail(list), Append(PostOrderFrom(Deps(n), emitted), n))

\* target t_j is a transitive dependency of one of the targets t_1 .. t_i
DepOfEarlier(ii, jj) == \E k \in 1..ii : targets[jj] \in TransDeps(targets[k])

\* target t_j is the same id as one of the targets t_1 .. t_i
SameAsEarlier(ii, jj) == \E k \in 1..ii : targets[jj] = targets[k]

(* C4 as stated: the order is the depth-first post-order over the targets   *)
(* in request order and the requires lists in declaration order; and for    *)
(* targets t_i before t_j in the request, t_i stands before t_j in the      *)
(* order unless t_j is a transitive dependency of t_i or an earlier target. *)
C4_AsStated ==
    Resolved =>
        /\ order = PostOrderFrom(targets, <<>>)
        /\ \A ii, jj \in 1..Len(targets) :
              ii < jj =>
                 \/ Pos(order, targets[ii]) < Pos(order, targets[jj])
                 \/ DepOfEarlier(ii, jj)

(* C4, amended: as above, but t_i stands before t_j unless t_j is the same  *)
(* id as, or a transitive dependency of, t_i or an earlier target.          *)
C4_TieBreak ==
    Resolved =>
        /\ order = PostOrderFrom(targets, <<>>)
        /\ \A ii, jj \in 1..Len(targets) :
              ii < jj =>
                 \/ Pos(order, targets[ii]) < Pos(order, targets[jj])
                 \/ DepOfEarlier(ii, jj)
                 \/ SameAsEarlier(ii, jj)

\* both tie-breaks decided an order: the targets are requested against the
\* order of their names, and the first lists its two dependencies likewise
C4_Witness ==
    /\ pc = "exec"
    /\ targets = <<"c", "a">>
    /\ Deps("c") = <<"b", "a">>
    /\ order = <<"b", "a", "c">>

\* visit(n) is at an entry m of n's requires list that is not registered
AtMissingDep(n, m) ==
    /\ pc = "topo"
    /\ stack # <<>>
    /\ stack[Len(stack)].n = n
    /\ stack[Len(stack)].k <= Len(Deps(n))
    /\ Deps(n)[stack[Len(stack)].k] = m
    /\ m \notin DOMAIN graph

\* run() ended with the error that names requiring node n and missing id m
FailedOnDependency(n, m) ==
    /\ pc = "failed"
    /\ err = [type |-> "KeyError",
              msg |-> <<"Unknown dependency '", m, "' required by '", n, "'">>]

AtMissingTarget(t) ==
    /\ pc = "topo"
    /\ stack = <<>>
    /\ ti <= Len(targets)
    /\ targets[ti] = t
    /\ t \notin DOMAIN graph

\* run() ended with the error that carries the unknown target t
FailedOnTarget(t) ==
    /\ pc = "failed"
    /\ err = [type |-> "KeyError", msg |-> <<"Unknown node/target: ", t>>]

ResolutionFailed == pc = "failed" /\ err.type = "KeyError"

C8_AsStated ==
    pc = "done" => \A n \in Range(order) : Cardinality(Calls(n)) = 1

\* the executor is at node n of the order
AtNode(n) == pc = "exec" /\ i <= Len(order) /\ order[i] = n

(* C8, amended: in every run that completes, every node of the resolved     *)
(* order has one result and its callable was invoked at most once; the      *)
(* step on a node invokes its callable once, except the step on a task      *)
(* whose id is already a key of the artifact store, which invokes nothing.  *)
C8_AtMostOnce ==
    /\ [](pc = "done" =>
            /\ Len(results) = Len(order)
            /\ \A n \in Range(order) : Cardinality(Calls(n)) <= 1)
    /\ [][\A n \in Ids : AtNode(n) =>
            IF graph[n].type = "task" /\ n \in DOMAIN ctx.artifacts
            THEN invoked' = invoked
            ELSE /\ Len(invoked') = Len(invoked) + 1
                 /\ invoked'[Len(invoked')].id = n
                 /\ SubSeq(invoked', 1, Len(invoked)) = invoked]_vars

\* a run of two tasks has completed: the first was invoked once, the second,
\* whose id the first had published, not at all
C8_Witness ==
    /\ pc = "done"
    /\ Len(order) = 2
    /\ Cardinality(Calls(order[1])) = 1
    /\ Cardinality(Calls(order[2])) = 0

(* C9: result map.  When a run completes, the keys of the result map are    *)
(* the resolved order, each entry holds the registered kind of its node     *)
(* and a check's entry holds a check result; and with task a returning      *)
(* "hi" and check b requiring a and returning status pass, run(["b"])       *)
(* returns a -> (task, "hi") followed by b -> (check, status pass).         *)
C9_ResultMap ==
    pc = "done" =>
        /\ Keys(results) = order
        /\ \A p \in 1..Len(results) :
              /\ results[p].val.kind \in {"task", "check"}
              /\ results[p].val.kind = graph[order[p]].type
              /\ results[p].val.kind = "check" => results[p].val.value.t = "CheckResult"
        /\ (/\ targets = <<"b">>
            /\ "a" \in DOMAIN TASKS \ DOMAIN CHECKS
            /\ "b" \in DOMAIN CHECKS
            /\ Deps("b") = <<"a">>
            /\ Len(invoked) = 2
            /\ invoked[1] = [id |-> "a", raised |-> FALSE, value |-> PyStr("hi")]
            /\ invoked[2].id = "b"
            /\ ~invoked[2].raised
            /\ invoked[2].value.status = "pass")
           => /\ Len(results) = 2
              /\ results[1] = [key |-> "a", val |-> [kind |-> "task", value |-> PyStr("hi")]]
              /\ results[2].key = "b"
              /\ results[2].val.kind = "check"
              /\ results[2].val.value.status = "pass"

\* run(["b"]) has returned the two entries of the scenario
C9_Witness ==
    /\ pc = "done"
    /\ targets = <<"b">>
    /\ Len(results) = 2
    /\ results[1] = [key |-> "a", val |-> [kind |-> "task", value |-> PyStr("hi")]]
    /\ results[2].key = "b"
    /\ results[2].val.kind = "check"
    /\ results[2].val.value.status = "pass"

(* C10: task memoization.  The step on a task whose id is already a key of  *)
(* the artifact store invokes no callable, leaves the artifact store        *)
(* unchanged and records the stored value as the task's result.             *)
C10_TaskMemoization ==
    [][\A n \in Ids :
         (AtNode(n) /\ graph[n].type = "task" /\ n \in DOMAIN ctx.artifacts) =>
             /\ invoked' = invoked
             /\ ctx' = ctx
             /\ Len(results') = Len(results) + 1
             /\ SubSeq(results', 1, Len(results)) = results
             /\ results'[Len(results')] =
                   [key |-> n, val |-> [kind |-> "task", value |-> ctx.artifacts[n]]]]_vars

\* the second task of a run was skipped: its result is the value that the
\* first task published under its id
C10_Witness ==
    /\ pc \in {"exec", "done"}
    /\ Len(results) = 2
    /\ results[2].val.kind = "task"
    /\ Calls(results[2].key) = {}
    /\ results[1].val.value = PyDict(results[2].key :> PyStr("w"))
    /\ results[2].val.value = PyStr("w")

(* C11: check memoization.  The step on a check whose id is already a key   *)
(* of the artifact store invokes no callable and leaves the value stored    *)
(* under that id as it is.                                                  *)
C11_CheckMemoization ==
    [][\A n \in Ids :
         (AtNode(n) /\ graph[n].type = "check" /\ n \in DOMAIN ctx.artifacts) =>
             /\ invoked' = invoked
             /\ n \in DOMAIN ctx'.artifacts
             /\ ctx'.artifacts[n] = ctx.artifacts[n]]_vars

\* the calls of this run in which the callable of a check raised
RaisedChecks == {p \in 1..Len(invoked) : invoked[p].raised /\ graph[invoked[p].id].type = "check"}

(* C12: check failure containment, conversion.  A check callable that       *)
(* raises does not make run() fail: the failure of a run in the loop is     *)
(* always that of a task.  The result recorded for the check has status     *)
(* error, the severity declared at registration and the exception's         *)
(* message as its error.                                                    *)
C12_CheckFailureContained ==
    /\ \A p \in RaisedChecks :
         \E q \in 1..Len(results) :
            /\ results[q].key = invoked[p].id
            /\ results[q].val.kind = "check"
            /\ results[q].val.value.id = invoked[p].id
            /\ results[q].val.value.status = "error"
            /\ results[q].val.value.severity = graph[invoked[p].id].severity
            /\ results[q].val.value.error = PyStr("division by zero")
    /\ (pc = "failed" /\ err.type = "Exception") =>
          /\ invoked # <<>>
          /\ graph[invoked[Len(invoked)].id].type = "task"
          /\ invoked[Len(invoked)].raised

\* check b, declared with severity warning, raised; the run went on and returned
C12_Witness ==
    /\ pc = "done"
    /\ "b" \in DOMAIN CHECKS
    /\ CHECKS["b"].severity = "warning"
    /\ \E p \in RaisedChecks : invoked[p].id = "b"
    /\ \E q \in 1..Len(results) :
          /\ results[q].key = "b"
          /\ results[q].val.value.status = "error"
          /\ results[q].val.value.severity = "warning"

\* the loop of run is sequential code: an iteration that can be taken is taken
FairSpec == Spec /\ WF_vars(ExecTask) /\ WF_vars(ExecCheck) /\ WF_vars(RunReturn)

\* the ids that have an entry in the result map, in order of insertion
ResultKeys == [q \in 1..Len(results) |-> results[q].key]

\* the run failed in the loop, on the call of a task
TaskRaised ==
    /\ pc = "failed"
    /\ err.type = "Exception"
    /\ invoked # <<>>
    /\ invoked[Len(invoked)].raised
    /\ graph[invoked[Len(invoked)].id].type = "task"

(* C13: check failure containment, continuation.  Once a check callable     *)
(* has raised, the run goes on: it ends by returning a result map with one  *)
(* entry for every node of the resolved order, that check included, unless  *)
(* the callable of a task raises.                                           *)
C13_RunContinues ==
    (RaisedChecks # {})
       ~> \/ /\ pc = "done"
             /\ ResultKeys = order
             /\ \A p \in RaisedChecks : \E q \in 1..Len(order) : order[q] = invoked[p].id
          \/ TaskRaised

\* check a raised first, task b ran after it, and the run returned both entries
C13_Witness ==
    /\ pc = "done"
    /\ order = <<"a", "b">>
    /\ ResultKeys = order
    /\ invoked[1] = Call("a", TRUE, PyNone)
    /\ graph["a"].type = "check"
    /\ Len(invoked) = 2
    /\ invoked[2].id = "b"

\* the calls of this run in which the callable of a task raised
RaisedTasks == {p \in 1..Len(invoked) : invoked[p].raised /\ graph[invoked[p].id].type = "task"}

(* C14: task failure is fatal.  When the callable of a task has raised,     *)
(* run() has failed with that exception and has returned no result map;    *)
(* the task has no entry in the result map, the loop stands at the task,    *)
(* and no callable has been invoked after it.                               *)
C14_TaskFailureFatal ==
    \A p \in RaisedTasks :
       /\ pc = "failed"
       /\ err = [type |-> "Exception", msg |-> <<"boom">>]
       /\ p = Len(invoked)
       /\ i <= Len(order)
       /\ order[i] = invoked[p].id
       /\ \A q \in 1..Len(results) : results[q].key # invoked[p].id
       /\ \A q \in (i + 1)..Len(order) : Calls(order[q]) = {}

\* run(["b"]) with b requiring a: task a raised first, and b was never called
C14_Witness ==
    /\ pc = "failed"
    /\ order = <<"a", "b">>
    /\ invoked = <<Call("a", TRUE, PyNone)>>
    /\ graph["a"].type = "task"
    /\ results = <<>>
    /\ Calls("b") = {}

\* the positions of the result map that hold the result of a check
CheckEntries == {q \in 1..Len(results) : results[q].val.kind = "check"}

(* C15: declared identity and severity are forced.  Every check result in   *)
(* the result map carries the key it is stored under as its id and the      *)
(* severity declared at registration as its severity.                       *)
C15_DeclaredForced ==
    \A q \in CheckEntries :
       /\ results[q].val.value.id = results[q].key
       /\ results[q].val.value.severity = graph[results[q].key].severity

\* the four statuses of a check result
Statuses == {"pass", "fail", "error", "skip"}

(* C16: closed status set.  Every check result of a run, in the result      *)
(* map, in the artifact store and in the summary rows, has one of the four  *)
(* statuses pass, fail, error, skip.                                        *)
C16_ClosedStatusSet ==
    /\ \A q \in CheckEntries : results[q].val.value.status \in Statuses
    /\ \A k \in DOMAIN ctx.artifacts :
          ctx.artifacts[k].t = "CheckResult" => ctx.artifacts[k].status \in Statuses
    /\ \A q \in 1..Len(summary_rows) :
          summary_rows[q][2] = "check" => summary_rows[q][3] \in Statuses

\* the check results of the result map whose status is in S
WithStatus(S) == {q \in CheckEntries : results[q].val.value.status \in S}

\* the check nodes of the resolved order
CheckNodes == {p \in 1..Len(order) : graph[order[p]].type = "check"}

(* C17: summary tally.  The pass, fail and skip counts are the numbers of   *)
(* check results with that status, the error count is the number of check   *)
(* results whose status is error or none of the four; when the run has      *)
(* completed, the four counts add up to the number of check nodes of the    *)
(* resolved order.                                                          *)
C17_SummaryTally ==
    pc \in {"exec", "done"} =>
       /\ \A st \in {"pass", "fail", "skip"} :
             check_tally[st] = Cardinality(WithStatus({st}))
       /\ check_tally["error"] = Cardinality(CheckEntries \ WithStatus({"pass", "fail", "skip"}))
       /\ pc = "done" =>
             check_tally["pass"] + check_tally["fail"] + check_tally["skip"]
                + check_tally["error"] = Cardinality(CheckNodes)

\* a completed run of two checks: one passed, one returned the status warning
C17_Witness ==
    /\ pc = "done"
    /\ Cardinality(CheckNodes) = 2
    /\ Cardinality(WithStatus({"pass"})) = 1
    /\ Cardinality(WithStatus({"warning"})) = 1
    /\ check_tally = [pass |-> 1, fail |-> 0, skip |-> 0, error |-> 1]

\* the call that this step appended to the history, when it appended one
NewCall == invoked'[Len(invoked')]

\* this step invoked the callable of task n, which returned
TaskReturned(n) ==
    /\ AtNode(n)
    /\ graph[n].type = "task"
    /\ Len(invoked') = Len(invoked) + 1
    /\ ~NewCall.raised

(* C18: task output is stored under the task's own id.  Right after the     *)
(* callable of task t has returned v, the artifact store holds v under t,   *)
(* and v is what the result map records for t.                              *)
C18_StoredUnderOwnId ==
    [][\A n \in Ids :
         TaskReturned(n) =>
            /\ n \in DOMAIN ctx'.artifacts
            /\ ctx'.artifacts[n] = NewCall.value
            /\ results'[Len(results')] =
                  [key |-> n, val |-> [kind |-> "task", value |-> NewCall.value]]]_vars

Completed(k) ==
    /\ pc = "exec"
    /\ \E q \in 1..Len(results) : results[q].key = k
    /\ k \in DOMAIN ctx.artifacts

\* this step leaves the value stored under k as it is
Kept(k) == k \in DOMAIN ctx'.artifacts /\ ctx'.artifacts[k] = ctx.artifacts[k]

(* C20 as stated: first completion is authoritative.  Once a node has       *)
(* completed and the store holds its value under its id, no later step of   *)
(* the run replaces the value stored under that id.                         *)
C20_AsStated ==
    [][\A k \in Ids : Completed(k) => Kept(k)]_vars

(* C20, amended: once a node has completed and the store holds its value    *)
(* under its id, a later step of the run replaces the value stored under    *)
(* that id only when it is the step of a task whose callable returns a      *)
(* mapping with that id as a key, and then by the mapping's entry.          *)
C20_ReplacedOnlyByMerge ==
    [][\A k \in Ids :
         Completed(k) =>
            \/ Kept(k)
            \/ \E n \in Ids \ {k} :
                  /\ TaskReturned(n)
                  /\ NewCall.value.t = "dict"
                  /\ k \in DOMAIN NewCall.value.items
                  /\ k \in DOMAIN ctx'.artifacts
                  /\ ctx'.artifacts[k] = NewCall.value.items[k]]_vars

\* task a completed with None, then task b returned {"a": "w"}: the value of a
\* was replaced; b's own value is the mapping
C20_Witness ==
    /\ pc \in {"exec", "done"}
    /\ ResultKeys = <<"a", "b">>
    /\ results[1].val = [kind |-> "task", value |-> PyNone]
    /\ invoked = <<Call("a", FALSE, PyNone), Call("b", FALSE, PyDict("a" :> PyStr("w")))>>
    /\ ctx.artifacts["a"] = PyStr("w")

\* the ids registered in either mapping
Registered == DOMAIN TASKS \cup DOMAIN CHECKS

(* C21: duplicate registration is rejected.  A registration of an id that   *)
(* is already registered, as a task or as a check, leaves both mappings     *)
(* unchanged: the id keeps its entry, and it does not enter the other       *)
(* mapping, so that no id is ever registered both as a task and as a check. *)
C21_DuplicateRejected ==
    [][\A n \in Registered :
         /\ (n \in DOMAIN TASKS') = (n \in DOMAIN TASKS)
         /\ (n \in DOMAIN CHECKS') = (n \in DOMAIN CHECKS)
         /\ n \in DOMAIN TASKS => TASKS'[n] = TASKS[n]
         /\ n \in DOMAIN CHECKS => CHECKS'[n] = CHECKS[n]
         /\ ~(n \in DOMAIN TASKS' /\ n \in DOMAIN CHECKS')]_vars

\* the calls put(k, _) among the first p - 1 calls on the context
PutsBefore(p, k) == {q \in 1..(p - 1) : invoked[q].op = "put" /\ invoked[q].k = k}

\* the value of the most recent of them
LastPut(p, k) ==
    invoked[CHOOSE q \in PutsBefore(p, k) : \A r \in PutsBefore(p, k) : r <= q].v

(* C22: context store semantics.  In every sequence of calls on one         *)
(* context, get(k, d) returned the value of the most recent put(k, v),      *)
(* None included, or d when there was none; has(k) returned true exactly    *)
(* when there was a put(k, _); and the artifact store holds, for every key  *)
(* that was put, the value of its most recent put and nothing else, so a    *)
(* put changes no other key and get and has change nothing.                 *)
C22_ContextStore ==
    /\ \A p \in 1..Len(invoked) :
          /\ invoked[p].op = "get" =>
                invoked[p].ret = IF PutsBefore(p, invoked[p].k) = {}
                                 THEN invoked[p].v
                                 ELSE LastPut(p, invoked[p].k)
          /\ invoked[p].op = "has" =>
                invoked[p].ret = PyBool(PutsBefore(p, invoked[p].k) # {})
    /\ DOMAIN ctx.artifacts = {k \in Ids : PutsBefore(Len(invoked) + 1, k) # {}}
    /\ \A k \in DOMAIN ctx.artifacts : ctx.artifacts[k] = LastPut(Len(invoked) + 1, k)

\* put("a", "hi"), put("a", None), then get("a", "d") returned None and has("a") true
C22_Witness ==
    /\ Len(invoked) = 4
    /\ invoked[1] = CtxCall("put", "a", PyStr("hi"), PyNone)
    /\ invoked[2] = CtxCall("put", "a", PyNone, PyNone)
    /\ invoked[3] = CtxCall("get", "a", PyStr("d"), PyNone)
    /\ invoked[4] = CtxCall("has", "a", PyNone, PyBool(TRUE))
    /\ ctx.artifacts = ("a" :> PyNone)

\* the ids under which the steps of this run have put a value: the ids of the
\* callables that returned, those of the checks that raised, and the keys of the
\* mappings that tasks returned
WrittenInRun ==
    {invoked[p].id : p \in {r \in 1..Len(invoked) :
                               ~invoked[r].raised \/ graph[invoked[r].id].type = "check"}}
       \cup UNION {DOMAIN invoked[p].value.items :
                      p \in {r \in 1..Len(invoked) :
                                ~invoked[r].raised /\ invoked[r].value.t = "dict"}}

(* C23 as stated: fresh context per run.  Every run() starts its loop with  *)
(* an empty artifact store, and every run that completes after an earlier   *)
(* run() has invoked the callable of every node of its resolved order.      *)
C23_AsStated ==
    /\ (pc = "exec" /\ i = 1) => ctx.artifacts = EmptyDict
    /\ (pc = "done" /\ earlier # {}) => \A n \in Range(order) : Calls(n) # {}

(* C23, amended: every run() starts its loop with an empty artifact store,  *)
(* the store never holds a key that no step of this run has written, and    *)
(* every node the loop has passed had its callable invoked in this run      *)
(* unless it is a task and an earlier task of this same run returned a      *)
(* mapping with its id as a key; that the id got a result in an earlier     *)
(* run() does not matter.                                                   *)
C23_FreshContext ==
    pc \in {"exec", "done"} =>
       /\ i = 1 => ctx.artifacts = EmptyDict
       /\ DOMAIN ctx.artifacts \subseteq WrittenInRun
       /\ \A q \in 1..(i - 1) :
             Calls(order[q]) = {} =>
                /\ graph[order[q]].type = "task"
                /\ \E p \in 1..Len(invoked) :
                      /\ ~invoked[p].raised
                      /\ invoked[p].value.t = "dict"
                      /\ order[q] \in DOMAIN invoked[p].value.items

\* a later run() of the same Runner has completed: a and b got results in an
\* earlier run, and both callables were invoked again in this one
C23_Witness ==
    /\ pc = "done"
    /\ earlier = {"a", "b"}
    /\ order = <<"a", "b">>
    /\ Len(invoked) = 2
    /\ invoked[1].id = "a"
    /\ invoked[2].id = "b"

\* what a depth-first walk of the ids of list meets first, given the ids on the
\* path from the target and the ids already finished: an id that is not
\* registered ("unknown"), an id that is on the path ("cycle"), or neither
RECURSIVE Probe(_, _, _)
Probe(list, path, done) ==
    IF list = <<>> THEN [r |-> "ok", done |-> done]
    ELSE LET n == Head(list) IN
         IF n \notin DOMAIN graph THEN [r |-> "unknown", done |-> done]
         ELSE IF n \in done THEN Probe(Tail(list), path, done)
         ELSE IF n \in path THEN [r |-> "cycle", done |-> done]
         ELSE LET below == Probe(Deps(n), path \cup {n}, done) IN
              IF below.r # "ok" THEN below
              ELSE Probe(Tail(list), path, below.done \cup {n})

\* the traversal of the requested targets reaches a cycle before any unknown id
CycleFirst == Probe(targets, {}, {}).r = "cycle"

(* C24: no cycle detection.  When the traversal of the requested targets    *)
(* reaches a cycle of requires entries before any unknown id, run() never   *)
(* gets an order and no callable is invoked; the recursion of visit is      *)
(* stopped by nothing but the interpreter's recursion limit, and run() then *)
(* fails with RecursionError, which is not an error about a cycle.          *)
C24_NoCycleDetection ==
    (pc # "idle" /\ CycleFirst) =>
       /\ pc \in {"topo", "failed"}
       /\ order = <<>>
       /\ invoked = <<>>
       /\ results = <<>>
       /\ pc = "failed" =>
             /\ err = [type |-> "RecursionError",
                       msg |-> <<"maximum recursion depth exceeded">>]
             /\ Len(stack) = RecursionLimit

\* run(["a"]) with a requiring b and b requiring a has failed at the recursion limit
C24_Witness ==
    /\ pc = "failed"
    /\ targets = <<"a">>
    /\ "a" \in DOMAIN graph /\ "b" \in DOMAIN graph
    /\ Deps("a") = <<"b">>
    /\ Deps("b") = <<"a">>
    /\ err.type = "RecursionError"
    /\ [q \in 1..Len(stack) |-> stack[q].n] = <<"a", "b", "a", "b">>

(* C25: task count.  When a run has completed, the task count of its        *)
(* summary is the number of task nodes whose callable was invoked in that   *)
(* run; a task that was skipped because its id was in the store is not      *)
(* counted.                                                                 *)
C25_TaskCount ==
    pc = "done" =>
       tasks_run = Cardinality({p \in 1..Len(invoked) : graph[invoked[p].id].type = "task"})

(* C26: timestamp order.  Every check result in the result map has          *)
(* finished_at >= started_at, whether the wrapper built it for a callable   *)
(* that raised or the callable returned it, with no timestamp given or      *)
(* with one of the two.                                                     *)
C26_TimestampOrder ==
    \A q \in CheckEntries :
       results[q].val.value.finished_at >= results[q].val.value.started_at

\* this step invoked the callable of check n, which returned a result that it
\* built with no timestamp of its own
CheckReturnedUnstamped(n) ==
    /\ AtNode(n)
    /\ graph[n].type = "check"
    /\ Len(invoked') = Len(invoked) + 1
    /\ ~NewCall.raised
    /\ NewCall.value = CheckResult(NewCall.value.id, NewCall.value.status,
                                   NewCall.value.severity, PyNone, 0, 0, clock + 2)

(* C27: executor stamping takes precedence.  When a check callable returns  *)
(* a result built without timestamps, the result recorded for the check     *)
(* carries the bounds measured around the call: a started_at read before    *)
(* the callable built its result and a finished_at read after it, not the   *)
(* readings of the constructor.                                             *)
C27_ExecutorStamps ==
    [][\A n \in Ids :
         CheckReturnedUnstamped(n) =>
            /\ results'[Len(results')].val.value.started_at < NewCall.value.started_at
            /\ results'[Len(results')].val.value.finished_at > NewCall.value.finished_at]_vars

(* C28: dependencies are complete before use.  The loop passes the nodes    *)
(* of the resolved order one at a time, in order; when it stands at a       *)
(* node, every id of that node's requires list is earlier in the order,     *)
(* has its entry in the result map and has an artifact in the store.        *)
C28_DependenciesComplete ==
    pc = "exec" =>
       /\ ResultKeys = SubSeq(order, 1, i - 1)
       /\ i <= Len(order) =>
             \A d \in Range(Deps(order[i])) :
                /\ Pos(order, d) > 0
                /\ Pos(order, d) < i
                /\ d \in Range(ResultKeys)
                /\ d \in DOMAIN ctx.artifacts

\* check b requires task a, a returned None, and then b's callable was invoked
C28_Witness ==
    /\ pc \in {"exec", "done"}
    /\ "b" \in DOMAIN CHECKS
    /\ Deps("b") = <<"a">>
    /\ Len(invoked) = 2
    /\ invoked[1] = Call("a", FALSE, PyNone)
    /\ invoked[2].id = "b"
    /\ ctx.artifacts["a"] = PyNone

\* the positions of the result map that hold a check result with status fail,
\* error or skip
BadVerdicts == WithStatus({"fail", "error", "skip"})

\* node n requires the node with id c, directly or transitively
RequiresCheck(n, c) == c \in TransDeps(n)

CycleReachable ==
    \E n \in Closure(Range(targets)) \cap DOMAIN graph : n \in TransDeps(n)

\* resolution has ended with an order, or with one of the two errors of _topo
EndedAsStated == pc = "exec" \/ (pc = "failed" /\ err.type = "KeyError")

\* resolution has ended at the interpreter's recursion limit on a path of
\* distinct nodes: a chain of requires entries, not a cycle
TooDeep ==
    /\ pc = "failed"
    /\ err.type = "RecursionError"
    /\ Len(stack) = RecursionLimit
    /\ \A p, q \in 1..Len(stack) : stack[p].n = stack[q].n => p = q

(* C30 as stated: resolution terminates on acyclic graphs.  When no cycle   *)
(* can be reached from the targets, resolution ends by returning an order   *)
(* or by failing with UnknownTarget or UnknownDependency.                   *)
C30_AsStated == (pc = "topo" /\ ~CycleReachable) ~> EndedAsStated

(* C30, amended: when no cycle can be reached from the targets, resolution  *)
(* ends: it returns an order, fails with UnknownTarget or                   *)
(* UnknownDependency, or, when a chain of requires entries is as deep as    *)
(* the interpreter's recursion limit, fails with RecursionError.            *)
C30_Terminates == (pc = "topo" /\ ~CycleReachable) ~> (EndedAsStated \/ TooDeep)

\* run(["a"]) on the chain a, b, c, d, the deepest that fits, has returned its order
C30_Witness ==
    /\ pc = "exec"
    /\ targets = <<"a">>
    /\ order = <<"d", "c", "b", "a">>
    /\ ~CycleReachable

=============================================================================
